---- MODULE Spec2Model ----
(***************************************************************************)
(* Model of src/app.py: the peak solver get_peak_safe, the evaluators      *)
(* composition_func and MM_iterated_correct, and the script's render pass   *)
(* (sidebar parameters, view range, curves, analysis text).                 *)
(*                                                                          *)
(* Numbers.  The parameters S, alpha, beta, a, b, A, B are decimal numbers  *)
(* held exactly as integers in units of 1e-6 (MICRO).  Every other float    *)
(* is a record in sign/logarithm form: [k, s, l, ex, m] with k the kind     *)
(* ("zero", "fin", "inf", "nan"), s the sign, l the natural logarithm of    *)
(* the magnitude in units of 1e-6, and, when ex is TRUE, m the exact value  *)
(* in units of 1e-6.  The kinds, the exceptions and the complex results     *)
(* follow Python and numpy; the rounding is that of the 1e-6 grid, not of   *)
(* IEEE-754 doubles.  Complex numbers are "polar" [l, th] (the result of a  *)
(* power), "cart" [re, im] (the result of a sum, product or quotient) or    *)
(* "czero".                                                                 *)
(***************************************************************************)
EXTENDS Integers, Sequences, FiniteSets, TLC

(***************************************************************************)
(* Fixed-point kernel (non-negative integers in units of 1e-6).             *)
(***************************************************************************)
MICRO == 1000000
LN2 == 693147
PI == 3141593
\* ln of the largest finite double (1.797e308) and of the smallest
\* subnormal (4.9e-324): beyond them a result overflows or underflows.
LnMax == 709782713
LnMin == -745133219
\* saturation value for a scaled logarithm that left [LnMin, LnMax]
SatLn == 800000000

Abs(n) == IF n < 0 THEN -n ELSE n
Sgn(n) == IF n < 0 THEN -1 ELSE 1

RECURSIVE LongDigits(_, _, _, _)
LongDigits(r, y, n, acc) ==
  IF n = 0 THEN acc
  ELSE LongDigits((r * 10) % y, y, n - 1, acc * 10 + ((r * 10) \div y))

\* floor(x * 1e6 / y) for x >= 0, 0 < y <= 2e8, x / y < 2147
DivM(x, y) == (x \div y) * MICRO + LongDigits(x % y, y, 6, 0)

\* floor(x * y / 1e6) for 0 <= x, y < 1e6
LowMul(x, y) ==
  LET xh == x \div 1000  xl == x % 1000
      yh == y \div 1000  yl == y % 1000
  IN xh * yh + ((xh * yl + xl * yh + ((xl * yl) \div 1000)) \div 1000)

\* floor(x * y / 1e6) for x, y >= 0 with a product below 2147
MulM(x, y) ==
  LET xq == x \div MICRO  xr == x % MICRO
      yq == y \div MICRO  yr == y % MICRO
  IN xq * yq * MICRO + xq * yr + xr * yq + LowMul(xr, yr)

RECURSIVE Pow2(_)
Pow2(k) == IF k = 0 THEN 1 ELSE 2 * Pow2(k - 1)

RECURSIVE LnSeries(_, _, _)
\* Horner form of 1 + z2/3 + z2^2/5 + ... (odd denominators d, d-2, ..., 1)
LnSeries(z2, d, h) ==
  IF d < 1 THEN h ELSE LnSeries(z2, d - 2, (MICRO \div d) + MulM(z2, h))

RECURSIVE LnNorm(_, _)
\* n > 0 brought into [1e6, 2e6) by halving or doubling; k counts the halvings
LnNorm(n, k) ==
  IF n >= 2 * MICRO THEN LnNorm(n \div 2, k + 1)
  ELSE IF n < MICRO THEN LnNorm(n * 2, k - 1)
  ELSE [f |-> n, k |-> k]

\* 2 artanh(z) = ln((1 + z) / (1 - z)) for 0 <= z < 1/3
LnZ(z) == 2 * MulM(z, LnSeries(MulM(z, z), 11, MICRO \div 13))

\* ln of nk.f * 2^nk.k
LnOfNorm(nk) == nk.k * LN2 + LnZ(DivM(nk.f - MICRO, nk.f + MICRO))

\* ln(n / 1e6) * 1e6 for n > 0
Ln(n) == LnOfNorm(LnNorm(n, 0))

RECURSIVE ExpSeries(_, _, _)
\* Horner form of 1 + r/1 (1 + r/2 (1 + ... ))
ExpSeries(r, d, h) ==
  IF d < 1 THEN h ELSE ExpSeries(r, d - 1, MICRO + (MulM(r, h) \div d))

\* exp(l / 1e6) * 1e6 for l < ln(2047) * 1e6
Exp(l) ==
  LET k == l \div LN2
      r == l - k * LN2
      h == ExpSeries(r, 10, MICRO)
  IN IF k >= 0 THEN h * Pow2(k)
     ELSE IF k < -30 THEN 0
     ELSE h \div Pow2(-k)

RECURSIVE CosSeries(_, _, _)
\* Horner form of 1 - t2/2 (1 - t2/12 (1 - t2/30 ( ... ))), d = 2j (2j - 1)
CosSeries(t2, j, h) ==
  IF j < 1 THEN h
  ELSE CosSeries(t2, j - 1, MICRO - (MulM(t2, h) \div (2 * j * (2 * j - 1))))

\* cos(th / 1e6) * 1e6 for any integer th
Cos(th) ==
  LET t == th % (2 * PI)
      u == IF t > PI THEN 2 * PI - t ELSE t
  IN IF 2 * u > PI
       THEN -CosSeries(MulM(PI - u, PI - u), 7, MICRO)
       ELSE CosSeries(MulM(u, u), 7, MICRO)

Sin(th) == Cos(th - (PI \div 2))

\* the angle th brought into (-PI, PI]
Principal(th) ==
  LET t == th % (2 * PI) IN IF t > PI THEN t - 2 * PI ELSE t

(***************************************************************************)
(* Floats in sign/logarithm form.                                           *)
(***************************************************************************)
Zero == [k |-> "zero", s |-> 1, l |-> 0, ex |-> TRUE, m |-> 0]
NaN == [k |-> "nan", s |-> 1, l |-> 0, ex |-> FALSE, m |-> 0]
Inf(s) == [k |-> "inf", s |-> s, l |-> 0, ex |-> FALSE, m |-> 0]
Fin(s, l) == [k |-> "fin", s |-> s, l |-> l, ex |-> FALSE, m |-> 0]

\* the float of the decimal number n / 1e6
Lin(n) ==
  IF n = 0 THEN Zero
  ELSE [k |-> "fin", s |-> Sgn(n), l |-> Ln(Abs(n)), ex |-> TRUE, m |-> n]

One == [k |-> "fin", s |-> 1, l |-> 0, ex |-> TRUE, m |-> MICRO]

\* a magnitude exp(l) of sign s as a double: overflow to inf, underflow to 0
Norm(s, l) ==
  IF l > LnMax THEN Inf(s) ELSE IF l < LnMin THEN Zero ELSE Fin(s, l)

Neg(x) ==
  IF x.k \in {"zero", "nan"} THEN x
  ELSE IF x.k = "inf" THEN Inf(-x.s)
  ELSE [x EXCEPT !.s = -x.s, !.m = -x.m]

\* x * y of two doubles (never raises)
Mul(x, y) ==
  IF x.k = "nan" \/ y.k = "nan" THEN NaN
  ELSE IF x.k = "inf" \/ y.k = "inf"
    THEN IF x.k = "zero" \/ y.k = "zero" THEN NaN ELSE Inf(x.s * y.s)
  ELSE IF x.k = "zero" \/ y.k = "zero" THEN Zero
  ELSE Norm(x.s * y.s, x.l + y.l)

\* x / y of two doubles, y not zero
Div(x, y) ==
  IF x.k = "nan" \/ y.k = "nan" THEN NaN
  ELSE IF x.k = "inf" THEN (IF y.k = "inf" THEN NaN ELSE Inf(x.s * y.s))
  ELSE IF y.k = "inf" \/ x.k = "zero" THEN Zero
  ELSE Norm(x.s * y.s, x.l - y.l)

\* hi + (s2 * r * |hi|) for the ratio r = e / 1e6 <= 1 of the magnitudes
AddRatio(hi, s2, e) ==
  IF hi.s = s2 THEN Norm(hi.s, hi.l + Ln(MICRO + e))
  ELSE IF e >= MICRO THEN Zero
  ELSE Norm(hi.s, hi.l + Ln(MICRO - e))

\* hi + lo of two finite doubles, |hi| >= |lo| > 0
AddFin(hi, lo) ==
  AddRatio(hi, lo.s, IF hi.l - lo.l > 20 * MICRO THEN 0 ELSE Exp(lo.l - hi.l))

\* x + y of two doubles (never raises); decimals of the grid add exactly
Add(x, y) ==
  IF x.k = "nan" \/ y.k = "nan" THEN NaN
  ELSE IF x.k = "inf"
    THEN IF y.k = "inf" /\ y.s # x.s THEN NaN ELSE x
  ELSE IF y.k = "inf" THEN y
  ELSE IF x.k = "zero" THEN y
  ELSE IF y.k = "zero" THEN x
  ELSE IF x.ex /\ y.ex /\ Abs(x.m) <= 1000 * MICRO /\ Abs(y.m) <= 1000 * MICRO
    THEN Lin(x.m + y.m)
  ELSE AddFin(IF x.l >= y.l THEN x ELSE y, IF x.l >= y.l THEN y ELSE x)

Sub(x, y) == Add(x, Neg(y))

\* an integer that orders the doubles other than nan as their values do
Key(x) ==
  IF x.k = "zero" THEN 0
  ELSE IF x.k = "inf" THEN x.s * 2000000000
  ELSE x.s * (x.l + SatLn)

\* x > y and x < y of two doubles (False when either is nan)
Gt(x, y) == x.k # "nan" /\ y.k # "nan" /\ Key(x) > Key(y)
Lt(x, y) == Gt(y, x)

\* the value of a finite double below 2047 in units of 1e-6
ToMicro(x) ==
  IF x.k = "zero" THEN 0 ELSE IF x.ex THEN x.m ELSE x.s * Exp(x.l)

\* l * p / 1e6 for l, p >= 0, saturated at SatLn
ScaleMul(l, p) ==
  IF p <= MICRO THEN MulM(l, p)
  ELSE IF l >= DivM(SatLn, p) THEN SatLn
  ELSE MulM(l, p)

\* l * 1e6 / b for l >= 0, 0 < b <= 1e8, saturated at SatLn
ScaleDiv(l, b) ==
  IF l \div b >= 800 THEN SatLn ELSE DivM(l, b)

\* An exponent is the rational n / d: (p, MICRO) for the decimal p / 1e6 and
\* (MICRO, b) for the reciprocal 1 / b of the decimal b / 1e6 > 0.
Dec(p) == [n |-> p, d |-> MICRO]
Recip(b) == [n |-> MICRO, d |-> b]
IsIntExp(e) == e.n % e.d = 0
IsOddExp(e) == IsIntExp(e) /\ (e.n \div e.d) % 2 = 1

\* l * e, l a logarithm of either sign
ScaleLn(l, e) ==
  Sgn(l) * Sgn(e.n) * (IF e.d = MICRO THEN ScaleMul(Abs(l), Abs(e.n))
                       ELSE ScaleDiv(Abs(l), e.d))

\* the angle PI * e of the power of a negative real, in (-PI, PI]
NegAngle(e) ==
  IF e.d = MICRO
    THEN Principal(Sgn(e.n) * MulM(PI, Abs(e.n)))
  ELSE Principal(((e.n \div e.d) % 2) * PI + MulM(PI, DivM(e.n % e.d, e.d)))

(***************************************************************************)
(* Complex numbers, as Python's complex type computes them.                 *)
(***************************************************************************)
Polar(l, th) == [k |-> "polar", l |-> l, th |-> th]
CZero == [k |-> "czero"]
Cart(re, im) == [k |-> "cart", re |-> re, im |-> im]
IsCx(z) == z.k \in {"polar", "czero", "cart"}

\* exp(l) * c for the cosine or sine c (units of 1e-6)
Scaled(l, c) == IF c = 0 THEN Zero ELSE Norm(Sgn(c), l + Ln(Abs(c)))

ToCart(z) ==
  IF z.k = "cart" THEN z
  ELSE IF z.k = "czero" THEN Cart(Zero, Zero)
  ELSE IF z.k = "polar" THEN Cart(Scaled(z.l, Cos(z.th)), Scaled(z.l, Sin(z.th)))
  ELSE Cart(z, Zero)

\* np.real(z)
Re(z) == IF IsCx(z) THEN ToCart(z).re ELSE z

\* u + v, u * v and u / r of complex u, v in "cart" form, r real and not zero
CAdd(u, v) == Cart(Add(u.re, v.re), Add(u.im, v.im))
CMul(u, v) ==
  Cart(Add(Mul(u.re, v.re), Neg(Mul(u.im, v.im))),
       Add(Mul(u.re, v.im), Mul(u.im, v.re)))
CDiv(u, r) == Cart(Div(u.re, r), Div(u.im, r))

\* x + y, x * y and x / r where x, y may be complex (never raise)
NAdd(x, y) ==
  IF ~IsCx(x) /\ ~IsCx(y) THEN Add(x, y) ELSE CAdd(ToCart(x), ToCart(y))
NMul(x, y) ==
  IF ~IsCx(x) /\ ~IsCx(y) THEN Mul(x, y) ELSE CMul(ToCart(x), ToCart(y))
NDiv(x, r) == IF ~IsCx(x) THEN Div(x, r) ELSE CDiv(ToCart(x), r)

(***************************************************************************)
(* Python's and numpy's power, exponential and logarithm.                   *)
(***************************************************************************)
Ok(v) == [exc |-> "none", v |-> v]
Raise(e) == [exc |-> e, v |-> NaN]

\* the power of magnitude exp(l) of a base of sign s: complex (of angle
\* PI * e) when the base is negative and e is no integer
PowResult(s, l, e) ==
  IF l > LnMax THEN Raise("OverflowError")
  ELSE IF s = -1 /\ ~IsIntExp(e)
    THEN (IF l < LnMin THEN Ok(CZero) ELSE Ok(Polar(l, NegAngle(e))))
  ELSE IF l < LnMin THEN Ok(Zero)
  ELSE Ok(Fin(IF s = -1 /\ IsOddExp(e) THEN -1 ELSE 1, l))

\* x ** e of a Python float x (floatobject.c float_pow): a zero base with a
\* negative exponent raises ZeroDivisionError, a result out of range raises
\* OverflowError, and a negative base with a fractional exponent is handed
\* to the complex power.
PyPowReal(x, e) ==
  IF e.n = 0 THEN Ok(One)
  ELSE IF x.k = "nan" THEN Ok(NaN)
  ELSE IF x.k = "inf"
    THEN Ok(IF e.n < 0 THEN Zero
            ELSE Inf(IF x.s = -1 /\ IsOddExp(e) THEN -1 ELSE 1))
  ELSE IF x.k = "zero"
    THEN (IF e.n < 0 THEN Raise("ZeroDivisionError") ELSE Ok(Zero))
  ELSE IF x.s = 1 /\ x.l = 0 THEN Ok(One)
  ELSE PowResult(x.s, ScaleLn(x.l, e), e)

CPowResult(l, th) ==
  IF l > LnMax THEN Raise("OverflowError")
  ELSE IF l < LnMin THEN Ok(CZero)
  ELSE Ok(Polar(l, th))

\* z ** e of a Python complex z that a power produced, e = Dec(p)
\* (complexobject.c complex_pow)
PyPowComplex(z, e) ==
  IF e.n = 0 THEN Ok(One)
  ELSE IF z.k = "czero"
    THEN (IF e.n < 0 THEN Raise("ZeroDivisionError") ELSE Ok(CZero))
  ELSE CPowResult(ScaleLn(z.l, e),
                  Principal(Sgn(z.th) * Sgn(e.n) * MulM(Abs(z.th), Abs(e.n))))

\* x ** e in Python
PyPow(x, e) == IF IsCx(x) THEN PyPowComplex(x, e) ELSE PyPowReal(x, e)

\* x ** e of a numpy float64 (scalar or array element): never raises, an
\* overflow is inf and an invalid power is nan
NpPow(x, e) ==
  IF e.n = 0 THEN One
  ELSE IF x.k = "nan" THEN NaN
  ELSE IF x.k = "inf"
    THEN (IF e.n < 0 THEN Zero
          ELSE Inf(IF x.s = -1 /\ IsOddExp(e) THEN -1 ELSE 1))
  ELSE IF x.k = "zero" THEN (IF e.n < 0 THEN Inf(1) ELSE Zero)
  ELSE IF x.s = -1 /\ ~IsIntExp(e) THEN NaN
  ELSE Norm(IF x.s = -1 /\ IsOddExp(e) THEN -1 ELSE 1, ScaleLn(x.l, e))

\* np.log(x): -inf at 0, nan below 0, never raises
NpLog(x) ==
  IF x.k = "nan" THEN NaN
  ELSE IF x.k = "zero" THEN Inf(-1)
  ELSE IF x.s = -1 THEN NaN
  ELSE IF x.k = "inf" THEN Inf(1)
  ELSE Lin(x.l)

\* np.exp of the quotient n / d of two decimals, d # 0: the argument is the
\* logarithm of the result; inf on overflow, 0 on underflow, never raises
NpExpQuot(n, d) ==
  IF n = 0 THEN One ELSE Norm(1, Sgn(n) * Sgn(d) * ScaleDiv(Abs(n), Abs(d)))

(***************************************************************************)
(* get_peak_safe(a, b): a and b are decimals in units of 1e-6.              *)
(***************************************************************************)
\* 1e-6, the floor of a and b; 1e-5, the degenerate threshold on b
Eps == 1
DegThreshold == 10
\* the fallback pair (1.1, 1.0): 1.1, and One
FallbackX == 1100000

PyMaxInt(x, y) == IF y > x THEN y ELSE x

\* a = max(a, 1e-6); b = max(b, 1e-6)
Floored(v) == PyMaxInt(v, Eps)

\* if b < 1e-5, on the floored b
PeakIsDegenerate(b) == b < DegThreshold

Body(x0, y0) == [exc |-> "none", x0 |-> x0, y0 |-> y0]
BodyRaise(e) == [exc |-> e, x0 |-> NaN, y0 |-> NaN]

\* y0 = x0**(a - 1) * (1 + np.log(x0)), x0 a numpy float64
DegenerateHeight(x0, a) ==
  Body(x0, Mul(NpPow(x0, Dec(a - MICRO)), Add(One, NpLog(x0))))

\* x0 = np.exp(a / (1 - a)), then y0; the division is Python's and raises
\* ZeroDivisionError at 1 - a = 0
DegenerateBranch(a) ==
  IF MICRO - a = 0 THEN BodyRaise("ZeroDivisionError")
  ELSE DegenerateHeight(NpExpQuot(a, MICRO - a), a)

\* y0 = p1 * (1 + (p2 - 1) / b), p1 and p2 the outcomes of x0**(a - 1) and
\* x0**b: the first of them that raised, if any, ends the try block
HeightOf(x0, p1, p2, b) ==
  IF p1.exc # "none" THEN BodyRaise(p1.exc)
  ELSE IF p2.exc # "none" THEN BodyRaise(p2.exc)
  ELSE Body(x0, NMul(p1.v, NAdd(One, NDiv(NAdd(p2.v, Neg(One)), Lin(b)))))

\* y0 = x0**(a - 1) * (1 + (x0**b - 1) / b), x0 a Python float or complex
PeakHeight(x0, a, b) ==
  HeightOf(x0, PyPow(x0, Dec(a - MICRO)), PyPow(x0, Dec(b)), b)

\* num = (1 - a) * (1 - b); den = 1 - (a + b); base = num / den, den # 0
PeakBase(a, b) == Div(Mul(Lin(MICRO - a), Lin(MICRO - b)), Lin(MICRO - (a + b)))

\* p0 the outcome of x0 = base**(1 / b); then y0
AfterX0(p0, a, b) ==
  IF p0.exc # "none" THEN BodyRaise(p0.exc) ELSE PeakHeight(p0.v, a, b)

\* A division in the numpy style, which gives inf at den = 0 and never raises.
GeneralBranchNumpyDiv(a, b) ==
  AfterX0(PyPow(IF MICRO - (a + b) = 0 THEN Inf(1) ELSE PeakBase(a, b),
                Recip(b)), a, b)

\* base = num / den raises ZeroDivisionError at den = 0; x0 = base**(1 / b)
GeneralBranch(a, b) ==
  IF MICRO - (a + b) = 0 THEN BodyRaise("ZeroDivisionError")
  ELSE AfterX0(PyPow(PeakBase(a, b), Recip(b)), a, b)

\* the try block on the floored a and b, up to the values handed to np.real
BranchOn(a, b) ==
  IF PeakIsDegenerate(b) THEN DegenerateBranch(a) ELSE GeneralBranch(a, b)

\* the try block: a = max(a, 1e-6), b = max(b, 1e-6), then the branch
TryBody(a, b) == BranchOn(Floored(a), Floored(b))

\* A handler written "except ZeroDivisionError:".
CatchesZeroDivisionOnly(e) == e = "ZeroDivisionError"

\* the bare "except:" catches every exception
Catches(e) == TRUE

\* The call: [raised, x0, y0], raised the exception that reaches the caller
\* ("none" when the call returns the pair (x0, y0)).
FallbackPeak == [raised |-> "none", x0 |-> Lin(FallbackX), y0 |-> One]

\* An except clause that hands back nan in place of the fallback pair.
OutcomeNanOnFailure(r) ==
  IF r.exc = "none"
    THEN [raised |-> "none", x0 |-> Re(r.x0), y0 |-> Re(r.y0)]
  ELSE [raised |-> "none", x0 |-> NaN, y0 |-> NaN]

\* r the outcome of the try block: return float(np.real(x0)),
\* float(np.real(y0)), or the except clause
Outcome(r) ==
  IF r.exc = "none"
    THEN [raised |-> "none", x0 |-> Re(r.x0), y0 |-> Re(r.y0)]
  ELSE IF Catches(r.exc) THEN FallbackPeak
  ELSE [raised |-> r.exc, x0 |-> NaN, y0 |-> NaN]

get_peak_safe(a, b) == Outcome(TryBody(a, b))

(***************************************************************************)
(* composition_func(x, A, B) and MM_iterated_correct(x): x a sequence of    *)
(* floats, A and B decimals in units of 1e-6.                               *)
(***************************************************************************)
\* A mask written "x > 0" for idx_pos.
IdxPosFromZero(x) == Gt(x, Zero)

\* idx_pos = x > 1; idx_neg = x < 0 (one element)
IdxPos(x) == Gt(x, One)
IdxNeg(x) == Lt(x, Zero)

\* A switch written "B < 1e-6", out of step with the one of get_peak_safe.
CompIsDegenerateAtEps(B) == B < Eps

\* if B < 1e-5
CompIsDegenerate(B) == B < DegThreshold

\* u**(A-1) * (1 + np.log(u)) or u**(A-1) * (1 + (u**B - 1) / B)
BranchFormula(u, A, B) ==
  IF CompIsDegenerate(B)
    THEN Mul(NpPow(u, Dec(A - MICRO)), Add(One, NpLog(u)))
  ELSE Mul(NpPow(u, Dec(A - MICRO)),
           Add(One, Div(Sub(NpPow(u, Dec(B)), One), Lin(B))))

\* A reflection written "-x[idx_neg]".
MirrorAtZero(x) == Neg(x)

\* xx_n = 1 - x[idx_neg]
Mirror(x) == Sub(One, x)

\* one element of val: np.ones_like, then val[idx_pos], then val[idx_neg]
CompElem(x, A, B) ==
  IF IdxNeg(x) THEN BranchFormula(Mirror(x), A, B)
  ELSE IF IdxPos(x) THEN BranchFormula(x, A, B)
  ELSE One

composition_func(x, A, B) == [i \in 1..Len(x) |-> CompElem(x[i], A, B)]

\* The numerator 1 + np.log(u) alone.
MMFormulaUndivided(u) == Add(One, NpLog(u))

\* (1 + np.log(u)) / u
MMFormula(u) == Div(Add(One, NpLog(u)), u)

MMElem(x) ==
  IF IdxNeg(x) THEN MMFormula(Mirror(x))
  ELSE IF IdxPos(x) THEN MMFormula(x)
  ELSE One

MM_iterated_correct(x) == [i \in 1..Len(x) |-> MMElem(x[i])]

(***************************************************************************)
(* The script: sidebar, plot, analysis.                                     *)
(***************************************************************************)
VARIABLES pc, S, alpha, beta, show_m2, peak_ab, peak_ba, default_view,
          x_view, x_plot, y_ab, y_ba, y_m2, y_lim, note

vars == <<pc, S, alpha, beta, show_m2, peak_ab, peak_ba, default_view,
          x_view, x_plot, y_ab, y_ba, y_m2, y_lim, note>>

\* a name not yet bound
Unset == [k |-> "unset"]
NoPeak == [raised |-> "none", x0 |-> Unset, y0 |-> Unset]

\* st.slider("Fixed Sum", 0.02, 0.99, 0.50)
SMin == 20000
SMax == 990000
\* alpha_max = max(S - 0.001, 0.0101); st.slider("alpha", 0.001, alpha_max, S / 2)
AlphaMin == 1000
AlphaMargin == 1000
AlphaMaxFloor == 10100
\* An upper end written max(S, 0.0101), without the 0.001 margin.
AlphaMaxNoMargin(s) == PyMaxInt(s, AlphaMaxFloor)
AlphaMax(s) == PyMaxInt(s - AlphaMargin, AlphaMaxFloor)

\* round(v, 4) of a decimal v in units of 1e-6: the nearest multiple of 1e-4;
\* at a decimal tie the binary double lies on either side, so both
\* neighbours are possible
Round4(v) ==
  LET lo == (v \div 100) * 100
      r  == v % 100
  IN IF r < 50 THEN {lo} ELSE IF r > 50 THEN {lo + 100} ELSE {lo, lo + 100}

\* A sign slip: round(S + alpha, 4).
BetaRoundedOfSum(s, al) == Round4(s + al)

\* beta = round(S - alpha, 4)
BetaRounded(s, al) == Round4(s - al)
\* beta = max(beta, 0.0)
BetaClamped(r) == PyMaxInt(r, 0)

\* Python's max(x, y) and min(x, y) of two floats
PyMax(x, y) == IF Gt(y, x) THEN y ELSE x
PyMin(x, y) == IF Lt(y, x) THEN y ELSE x

\* st.slider("View Range", 2.0, 1000.0, min(max(default_view, 5.0), 1000.0))
ViewMin == 2000000
ViewMax == 1000000000
ViewFloor == 5000000
\* A default written max(default_view, 5.0), without the upper clamp.
DefaultViewNoUpperClamp(x0_ab, x0_ba) ==
  PyMax(Mul(PyMax(x0_ab, x0_ba), Lin(1500000)), Lin(ViewFloor))

\* peak_max = max(x0_ab, x0_ba); default_view = float(peak_max * 1.5);
\* the slider's default min(max(default_view, 5.0), 1000.0)
DefaultView(x0_ab, x0_ba) ==
  PyMin(PyMax(Mul(PyMax(x0_ab, x0_ba), Lin(1500000)), Lin(ViewFloor)), Lin(ViewMax))

\* the sample grid has GridPoints points (3000 in the script)
GridPoints == 5
\* start + i * step for i < GridPoints - 1, and stop itself at the end
LinspaceOf(start, stop, step) ==
  [i \in 1..GridPoints |->
     IF i = GridPoints THEN stop ELSE Add(start, Mul(Lin((i - 1) * MICRO), step))]

\* np.linspace(-v, v, GridPoints), step = (stop - start) / (GridPoints - 1)
Linspace(v) ==
  LinspaceOf(Neg(v), v, Div(Sub(v, Neg(v)), Lin((GridPoints - 1) * MICRO)))

\* the widget values of one run: bounds of the model
SPoints == 5
APoints == 3
FinePoints == 3
SliderS == {SMin + i * ((SMax - SMin) \div SPoints) : i \in 0..SPoints} \cup {SMax}
SliderAlpha(s) ==
  {AlphaMin + j * ((AlphaMax(s) - AlphaMin) \div APoints) : j \in 0..APoints}
  \cup {a \in {AlphaMax(s) - 25 * j : j \in 0..FinePoints} : a >= AlphaMin}

Init ==
  /\ pc = "start"
  /\ S \in SliderS
  /\ alpha \in SliderAlpha(S)
  /\ show_m2 \in BOOLEAN
  /\ beta = 0
  /\ peak_ab = NoPeak
  /\ peak_ba = NoPeak
  /\ default_view = Unset
  /\ x_view = Unset
  /\ x_plot = <<>>
  /\ y_ab = <<>>
  /\ y_ba = <<>>
  /\ y_m2 = <<>>
  /\ y_lim = Unset
  /\ note = "none"

\* lines 34-58: beta, the two peaks, the view slider (its default or the
\* user's choice of its least value)
Sidebar ==
  /\ pc = "start"
  /\ \E r \in BetaRounded(S, alpha) : beta' = BetaClamped(r)
  /\ peak_ab' = get_peak_safe(alpha, beta')
  /\ peak_ba' = get_peak_safe(beta', alpha)
  /\ peak_ab'.raised = "none"
  /\ peak_ba'.raised = "none"
  /\ default_view' = DefaultView(peak_ab'.x0, peak_ba'.x0)
  /\ x_view' \in {default_view', Lin(ViewMin)}
  /\ pc' = "plot"
  /\ UNCHANGED <<S, alpha, show_m2, x_plot, y_ab, y_ba, y_m2, y_lim, note>>

\* lines 85-108: the grid, the two curves, the optional M^2 curve, the y limit
Plot ==
  /\ pc = "plot"
  /\ x_plot' = Linspace(x_view)
  /\ y_ab' = composition_func(x_plot', alpha, beta)
  /\ y_ba' = composition_func(x_plot', beta, alpha)
  /\ y_m2' = IF show_m2 THEN MM_iterated_correct(x_plot') ELSE <<>>
  /\ y_lim' = Mul(PyMax(PyMax(peak_ab.y0, peak_ba.y0), Lin(1100000)), Lin(1300000))
  /\ pc' = "analysis"
  /\ UNCHANGED <<S, alpha, beta, show_m2, peak_ab, peak_ba, default_view, x_view, note>>

\* lines 111-146: the text, with its branch on beta == 0, and the export
Analysis ==
  /\ pc = "analysis"
  /\ note' = IF beta = 0 THEN "degenerate" ELSE "general"
  /\ pc' = "done"
  /\ UNCHANGED <<S, alpha, beta, show_m2, peak_ab, peak_ba, default_view,
                 x_view, x_plot, y_ab, y_ba, y_m2, y_lim>>

\* a widget changes and the script runs again from the top
Rerun ==
  /\ pc = "done"
  /\ S' \in SliderS
  /\ alpha' \in SliderAlpha(S')
  /\ show_m2' \in BOOLEAN
  /\ beta' = 0
  /\ peak_ab' = NoPeak
  /\ peak_ba' = NoPeak
  /\ default_view' = Unset
  /\ x_view' = Unset
  /\ x_plot' = <<>>
  /\ y_ab' = <<>>
  /\ y_ba' = <<>>
  /\ y_m2' = <<>>
  /\ y_lim' = Unset
  /\ note' = "none"
  /\ pc' = "start"

Next == Sidebar \/ Plot \/ Analysis \/ Rerun

Spec == Init /\ [][Next]_vars

(***************************************************************************)
(* The functions on their own: get_peak_safe on any reals of [-10, 10],     *)
(* then composition_func at the peak it returned.                           *)
(***************************************************************************)
UnitSteps == 4
PeakArgs ==
  {-10 * MICRO, -1, 0, 1, 5, 10, 50, 450000, 560000, 900000, 999000,
   MICRO - 10, 2 * MICRO, 10 * MICRO}
  \cup {i * (MICRO \div UnitSteps) : i \in 0..UnitSteps}

InitPeak ==
  /\ pc = "peak_call"
  /\ alpha \in PeakArgs
  /\ beta \in PeakArgs
  /\ S = 0
  /\ show_m2 = FALSE
  /\ peak_ab = NoPeak
  /\ peak_ba = NoPeak
  /\ default_view = Unset
  /\ x_view = Unset
  /\ x_plot = <<>>
  /\ y_ab = <<>>
  /\ y_ba = <<>>
  /\ y_m2 = <<>>
  /\ y_lim = Unset
  /\ note = "none"

\* x0_ab, y0_ab = get_peak_safe(alpha, beta)
CallPeak ==
  /\ pc = "peak_call"
  /\ peak_ab' = get_peak_safe(alpha, beta)
  /\ pc' = "peak_returned"
  /\ UNCHANGED <<S, alpha, beta, show_m2, peak_ba, default_view, x_view,
                 x_plot, y_ab, y_ba, y_m2, y_lim, note>>

\* composition_func(np.array([x0_ab]), alpha, beta)
EvalAtPeak ==
  /\ pc = "peak_returned"
  /\ peak_ab.raised = "none"
  /\ x_plot' = <<peak_ab.x0>>
  /\ y_ab' = composition_func(x_plot', alpha, beta)
  /\ pc' = "peak_evaluated"
  /\ UNCHANGED <<S, alpha, beta, show_m2, peak_ab, peak_ba, default_view,
                 x_view, y_ba, y_m2, y_lim, note>>

NextPeak == CallPeak \/ EvalAtPeak

SpecPeak == InitPeak /\ [][NextPeak]_vars

(***************************************************************************)
(* composition_func and MM_iterated_correct on arrays of two samples.       *)
(***************************************************************************)
XSteps == 4
XValues ==
  {i * (MICRO \div 2) : i \in (-XSteps)..(XSteps + 2)} \cup {-3 * MICRO, 5 * MICRO}
CompA == {0, 300000, MICRO}
CompB == {0, 5, 250000}

InitComp ==
  /\ pc = "comp_call"
  /\ \E u, v \in XValues : x_plot = <<Lin(u), Lin(v)>>
  /\ alpha \in CompA
  /\ beta \in CompB
  /\ S = 0
  /\ show_m2 = TRUE
  /\ peak_ab = NoPeak
  /\ peak_ba = NoPeak
  /\ default_view = Unset
  /\ x_view = Unset
  /\ y_ab = <<>>
  /\ y_ba = <<>>
  /\ y_m2 = <<>>
  /\ y_lim = Unset
  /\ note = "none"

\* y_ab = composition_func(x_plot, alpha, beta)
CallComp ==
  /\ pc = "comp_call"
  /\ y_ab' = composition_func(x_plot, alpha, beta)
  /\ pc' = "comp_returned"
  /\ UNCHANGED <<S, alpha, beta, show_m2, peak_ab, peak_ba, default_view,
                 x_view, x_plot, y_ba, y_m2, y_lim, note>>

\* MM_iterated_correct(x_plot)
CallMM ==
  /\ pc = "comp_returned"
  /\ y_m2' = MM_iterated_correct(x_plot)
  /\ pc' = "mm_returned"
  /\ UNCHANGED <<S, alpha, beta, show_m2, peak_ab, peak_ba, default_view,
                 x_view, x_plot, y_ab, y_ba, y_lim, note>>

NextComp == CallComp \/ CallMM

SpecComp == InitComp /\ [][NextComp]_vars

(***************************************************************************)
(* Properties.                                                              *)
(***************************************************************************)
\* x == y of two doubles: the same value, and False when either is nan
FloatEq(x, y) == x.k # "nan" /\ y.k # "nan" /\ Key(x) = Key(y)

\* |u - v| <= 1e-3 of two finite doubles
Tol == MICRO \div 1000
Close(u, v) ==
  /\ u.k \in {"zero", "fin"}
  /\ v.k \in {"zero", "fin"}
  /\ Abs(ToMicro(u) - ToMicro(v)) <= Tol

\* 0 <= x <= 1 for a sample x of the grid of decimals
InUnitInterval(x) == x.k = "zero" \/ (x.k = "fin" /\ x.ex /\ 0 < x.m /\ x.m <= MICRO)

IsFloat(x) == x.k \in {"zero", "fin", "inf", "nan"}

\* C1: composition_func returns exactly 1.0 at every element x with
\* 0 <= x <= 1, the boundary points 0 and 1 included, whatever (A, B) is;
\* only the elements with x > 1 or x < 0 carry a formula value.
C1_UnitIntervalIsOne ==
  pc \in {"comp_returned", "mm_returned"} =>
    \A i \in 1..Len(x_plot) : InUnitInterval(x_plot[i]) => y_ab[i] = One

C1_BoundaryPointsEvaluated ==
  /\ pc = "comp_returned"
  /\ x_plot[1].k = "zero"
  /\ x_plot[2] = One
  /\ alpha = 300000
  /\ beta = 250000
  /\ y_ab = <<One, One>>

\* C2: get_peak_safe(a, b) never raises: for any real (a, b), in particular
\* every pair in [-10, 10] x [-10, 10], the call returns a pair of floats
\* (the computed pair or the fallback pair) and no exception reaches the
\* caller.
C2_NeverRaises ==
  pc \in {"peak_returned", "peak_evaluated"} =>
    /\ peak_ab.raised = "none"
    /\ IsFloat(peak_ab.x0)
    /\ IsFloat(peak_ab.y0)

C2_CornerOfTheSquareReturned ==
  /\ pc = "peak_returned"
  /\ alpha = -10 * MICRO
  /\ beta = 10 * MICRO
  /\ peak_ab.raised = "none"

\* C3: when the general branch is taken (b >= 1e-5 after flooring) and
\* a + b = 1, so that den = 1 - (a + b) is zero, get_peak_safe returns
\* exactly the fallback pair (1.1, 1.0).
C3_ZeroDenominatorFallback ==
  (/\ pc = "peak_returned"
   /\ Floored(beta) >= DegThreshold
   /\ Floored(alpha) + Floored(beta) = MICRO)
  => (peak_ab.x0 = Lin(1100000) /\ peak_ab.y0 = One /\ peak_ab.raised = "none")

C3_HalfHalfReturned ==
  /\ pc = "peak_returned"
  /\ alpha = 500000
  /\ beta = 500000
  /\ peak_ab = FallbackPeak

\* the three kinds of failure of the formulas of get_peak_safe
RaisedInBody(a, b) == TryBody(a, b).exc # "none"
NegativeBasePower(a, b) ==
  /\ Floored(b) >= DegThreshold
  /\ MICRO - (Floored(a) + Floored(b)) # 0
  /\ PeakBase(Floored(a), Floored(b)).k = "fin"
  /\ PeakBase(Floored(a), Floored(b)).s = -1
  /\ ~IsIntExp(Recip(Floored(b)))
ExpOverflow(a, b) ==
  /\ Floored(b) < DegThreshold
  /\ TryBody(a, b).exc = "none"
  /\ TryBody(a, b).x0.k = "inf"

\* C4, as restricted to what the except clause sees: every
\* ZeroDivisionError and OverflowError raised by the formulas (nothing else is
\* raised) is caught and replaced by exactly (1.1, 1.0); a negative base
\* raised to a fractional power raises nothing, the power is complex and the
\* real parts of the computed x0 and y0 are returned; an overflow of np.exp
\* raises nothing and x0 = inf is returned.
C4_RaisedFailuresFallBack ==
  pc = "peak_returned" =>
    /\ TryBody(alpha, beta).exc \in {"none", "ZeroDivisionError", "OverflowError"}
    /\ RaisedInBody(alpha, beta) => peak_ab = FallbackPeak
    /\ (NegativeBasePower(alpha, beta) /\ ~RaisedInBody(alpha, beta)) =>
         /\ IsCx(TryBody(alpha, beta).x0)
         /\ peak_ab.x0 = Re(TryBody(alpha, beta).x0)
         /\ peak_ab.y0 = Re(TryBody(alpha, beta).y0)
    /\ ExpOverflow(alpha, beta) => peak_ab.x0 = Inf(1)

C4_OverflowCaught ==
  /\ pc = "peak_returned"
  /\ TryBody(alpha, beta).exc = "OverflowError"
  /\ peak_ab = FallbackPeak

\* C4 as stated: every failure of the three kinds (a division by zero, a
\* negative base raised to a fractional power, an overflow) ends in exactly
\* the fallback pair (1.1, 1.0).
C4_EveryFailureKindFallsBack ==
  (/\ pc = "peak_returned"
   /\ \/ RaisedInBody(alpha, beta)
      \/ NegativeBasePower(alpha, beta)
      \/ ExpOverflow(alpha, beta))
  => peak_ab = FallbackPeak

\* C5: mirror symmetry of composition_func: for every u > 1 and any (A, B)
\* the value at x = u equals the value at x = 1 - u < 0, e.g. f(2) = f(-1).
C5_MirrorSymmetry ==
  pc \in {"comp_returned", "mm_returned"} =>
    \A i, j \in 1..Len(x_plot) :
      (/\ x_plot[i].k = "fin" /\ x_plot[i].ex /\ x_plot[i].m > MICRO
       /\ x_plot[j].k = "fin" /\ x_plot[j].ex
       /\ x_plot[j].m = MICRO - x_plot[i].m)
      => FloatEq(y_ab[i], y_ab[j])

C5_TwoAndMinusOneEvaluated ==
  /\ pc = "comp_returned"
  /\ x_plot[1] = Lin(2 * MICRO)
  /\ x_plot[2] = Lin(-MICRO)
  /\ beta = 250000
  /\ y_ab[1] # One
  /\ FloatEq(y_ab[1], y_ab[2])

\* C6, with the exponent set right: MM_iterated_correct(x) is
\* composition_func(x, 0, eps) for eps below the degenerate threshold, to
\* within 1e-3, for every x (in particular 2, 5 and -3): the factor
\* u^(A-1) is 1/u at A = 0.
C6_SpecialCaseAtAZero ==
  (pc = "mm_returned" /\ alpha = 0 /\ beta < DegThreshold) =>
    \A i \in 1..Len(x_plot) : Close(y_m2[i], y_ab[i])

C6_SamplesCompared ==
  /\ pc = "mm_returned"
  /\ alpha = 0
  /\ beta = 5
  /\ x_plot[1] = Lin(5 * MICRO)
  /\ x_plot[2] = Lin(-3 * MICRO)
  /\ y_m2[1] # One
  /\ Close(y_m2[1], y_ab[1])

\* C6 as stated: MM_iterated_correct(x) equals composition_func(x, 1, eps)
\* for eps below the degenerate threshold, to within 1e-3.
C6_SpecialCaseAtAOne ==
  (pc = "mm_returned" /\ alpha = MICRO /\ beta < DegThreshold) =>
    \A i \in 1..Len(x_plot) : Close(y_m2[i], y_ab[i])

\* C7: for every admissible input of the sliders the derived pair satisfies
\* 0 <= alpha < 1, 0 <= beta < 1 and alpha + beta < 1 on every pass, in
\* both orderings handed to get_peak_safe and composition_func.
C7_ParametersInUnitRange ==
  pc # "start" =>
    /\ 0 <= alpha /\ alpha < MICRO
    /\ 0 <= beta /\ beta < MICRO
    /\ alpha + beta < MICRO
    /\ beta + alpha < MICRO

C7_LargestSumRendered ==
  /\ pc = "done"
  /\ S = SMax
  /\ alpha = AlphaMax(SMax)
  /\ beta > 0

\* the peak lies in the region x > 1 and is an ordinary real number
RealPeak(a, b) ==
  /\ TryBody(a, b).exc = "none"
  /\ ~IsCx(TryBody(a, b).x0)
  /\ ~IsCx(TryBody(a, b).y0)
  /\ TryBody(a, b).x0.k = "fin"

\* C8, for peaks that are finite real numbers: for every (a, b) with
\* a >= 1e-6 for which get_peak_safe returns a computed pair with x0 > 1,
\* x0 finite and no complex intermediate, y0 equals composition_func at x0
\* with (A, B) = (a, b); and both functions take the degenerate branch for
\* exactly the same b (b < 1e-5, b <= 0 included).
C8_PeakOnTheCurve ==
  pc = "peak_evaluated" =>
    /\ PeakIsDegenerate(Floored(beta)) <=> CompIsDegenerate(beta)
    /\ (/\ alpha >= Eps
        /\ RealPeak(alpha, beta)
        /\ Gt(peak_ab.x0, One))
       => FloatEq(peak_ab.y0, y_ab[1])

C8_PeakSubstituted ==
  /\ pc = "peak_evaluated"
  /\ alpha = 250000
  /\ beta = 250000
  /\ RealPeak(alpha, beta)
  /\ Gt(peak_ab.x0, One)
  /\ FloatEq(peak_ab.y0, y_ab[1])

\* C8 as stated: for every (a, b) with a >= 1e-6 for which get_peak_safe
\* returns a non-fallback pair with x0 > 1, y0 equals composition_func at
\* x0 with (A, B) = (a, b), and the branch choices agree.
C8_EveryPeakOnTheCurve ==
  pc = "peak_evaluated" =>
    /\ PeakIsDegenerate(Floored(beta)) <=> CompIsDegenerate(beta)
    /\ (/\ alpha >= Eps
        /\ TryBody(alpha, beta).exc = "none"
        /\ Gt(peak_ab.x0, One))
       => FloatEq(peak_ab.y0, y_ab[1])

\* v within [5, 1000], hence within the slider's range [2.0, 1000.0]
InViewRange(v) ==
  /\ v.k = "fin"
  /\ ~Lt(v, Lin(ViewFloor))
  /\ ~Gt(v, Lin(ViewMax))
  /\ ~Lt(v, Lin(ViewMin))
Clamped(d) ==
  IF Lt(d, Lin(ViewFloor)) THEN Lin(ViewFloor)
  ELSE IF Gt(d, Lin(ViewMax)) THEN Lin(ViewMax) ELSE d

\* C9: the default view half-width is 1.5 times the larger of the two peak
\* x-locations clamped into [5, 1000]; for every pair of peaks that
\* get_peak_safe returns for admissible inputs, and for the fallback
\* x = 1.1, it lies in [5, 1000] and so in the slider's range [2.0, 1000.0].
C9_DefaultViewInRange ==
  /\ InViewRange(DefaultView(FallbackPeak.x0, FallbackPeak.x0))
  /\ pc # "start" =>
       /\ InViewRange(default_view)
       /\ default_view =
            Clamped(Mul(IF Gt(peak_ba.x0, peak_ab.x0) THEN peak_ba.x0 ELSE peak_ab.x0,
                        Lin(1500000)))

C9_UpperClampApplied ==
  /\ pc = "done"
  /\ Gt(Mul(peak_ab.x0, Lin(1500000)), Lin(ViewMax))
  /\ default_view = Lin(ViewMax)

\* C10: for every admissible input of the sliders the derived beta is at
\* least 0.001: the floor of beta at 0 never takes effect, neither
\* get_peak_safe nor composition_func takes the degenerate branch
\* (b < 1e-5) in either ordering, and the "beta == 0" text is unreachable.
C10_BetaAtLeastOneThousandth ==
  /\ \A r \in BetaRounded(S, alpha) : r >= 1000 /\ BetaClamped(r) = r
  /\ pc # "start" =>
       /\ beta >= 1000
       /\ ~PeakIsDegenerate(Floored(beta))
       /\ ~PeakIsDegenerate(Floored(alpha))
       /\ ~CompIsDegenerate(beta)
       /\ ~CompIsDegenerate(alpha)
       /\ note # "degenerate"

C10_SmallestBetaRendered ==
  /\ pc = "done"
  /\ beta = 1000
  /\ note = "general"

====
